---- MODULE Spec2Model ----
(***************************************************************************)
(* Model of app.py: a Flask backend with three routes (GET /, POST /upload,*)
(* POST /query) that forwards documents to the Supermemory API and answers *)
(* questions through the Gemini API.                                       *)
(*                                                                         *)
(* The server runs each request in a thread of its own.  A handler blocks  *)
(* on every requests.post, so a handler is split exactly at                *)
(* its network round trips: one action runs the handler up to the POST,    *)
(* one action per upstream reply runs it from the reply to the next POST   *)
(* or to the HTTP response.                                                *)
(*                                                                         *)
(* JSON objects are records; an absent key is an absent field.  Text is a  *)
(* sequence of string pieces, so that an f-string is the concatenation of  *)
(* its literal pieces and its formatted values.                            *)
(***************************************************************************)
EXTENDS Integers, Sequences, FiniteSets, Bags, TLC

VARIABLES
    config,   \* module globals SUPERMEMORY_API_KEY, GEMINI_API_KEY (set at import)
    threads   \* the bag of request threads: one record per request being handled
              \* or just answered, with fields
              \*   pc    where the view function stands: "ingest", "search", "synth"
              \*         (blocked in that POST) or "done" (response produced)
              \*   req   the request
              \*   calls the client-function calls made for it, in order
              \*   resp  its HTTP response, NoResp until produced

vars == <<config, threads>>

\* Number of requests the server handles at the same time.
MaxThreads == 2

(***************************************************************************)
(* Python values                                                           *)
(***************************************************************************)
\* None, as os.getenv returns it for an unset variable.
None == "<None>"

\* Python truthiness of an optional string: None and '' are falsy.
Truthy(s) == s # None /\ s # ""

\* key in dict
Has(obj, key) == key \in DOMAIN obj

\* dict.get(key, default)
Get(obj, key, default) == IF Has(obj, key) THEN obj[key] ELSE default

\* str(int) for the status codes that occur.
StatusStr(n) ==
    CASE n = 200 -> "200"
      [] n = 304 -> "304"
      [] n = 400 -> "400"
      [] n = 404 -> "404"
      [] n = 500 -> "500"

\* A function call's outcome: a returned value or a raised exception.
Returned(v) == [raised |-> FALSE, value |-> v]
Raised(e)   == [raised |-> TRUE, exc |-> e]

(***************************************************************************)
(* Configuration                                                           *)
(***************************************************************************)
SUPERMEMORY_BASE_URL == <<"https://api.supermemory.ai/v3">>

GEMINI_API_URL(key) ==
    <<"https://generativelanguage.googleapis.com/v1beta/models/gemini-2.0-flash:generateContent?key=", key>>

\* What os.getenv can give for a key: unset, set to '', set to a value.
KeyValues == {None, "", "sk-key"}

NoResp == [status |-> 0]

(***************************************************************************)
(* Upstream replies.  A requests.post either raises ConnectionError or     *)
(* gives a Response with a status code, a body text and, when the text is  *)
(* JSON, its decoded value (field json; absent when the text is not JSON). *)
(***************************************************************************)
ConnFail == [kind |-> "conn_error"]

HttpReply(status, text) == [kind |-> "response", status |-> status, text |-> text]

JsonReply(status, text, json) ==
    [kind |-> "response", status |-> status, text |-> text, json |-> json]

\* Error replies of either upstream: a 4xx and a 5xx.
ErrorReplies == {HttpReply(404, "Not Found"), HttpReply(500, "Internal Server Error")}

\* Replies to POST {SUPERMEMORY_BASE_URL}/memories.
IngestReplies ==
    {ConnFail} \cup ErrorReplies \cup
    { JsonReply(200, "{id}", [id |-> "m1"]),
      HttpReply(200, ""),
      JsonReply(304, "{id}", [id |-> "m1"]) }

\* Chunks and results as the search endpoint returns them.
Chunk1 == [content |-> "Refunds are processed within 14 days.", score |-> "0.9"]
Chunk2 == [content |-> "Shipping takes 3 days.", score |-> "0.7"]
ChunkNoContent == [score |-> "0.9"]

SearchBodies ==
    { [total |-> "0"],                                             \* no results key
      [results |-> <<>>],
      [results |-> <<[title |-> "policy.txt"]>>],                  \* no chunks key
      [results |-> <<[title |-> "empty.txt", chunks |-> <<>>],
                     [title |-> "faq.txt", chunks |-> <<Chunk2>>]>>],
      [results |-> <<[title |-> "policy.txt", chunks |-> <<Chunk1, Chunk2>>],
                     [title |-> "faq.txt", chunks |-> <<Chunk2>>]>>],
      [results |-> <<[documentId |-> "d1", chunks |-> <<ChunkNoContent>>]>>] }  \* no title, no content

\* Replies to POST {SUPERMEMORY_BASE_URL}/search.
SearchReplies ==
    {ConnFail} \cup ErrorReplies \cup
    { HttpReply(200, "<html>") } \cup
    { JsonReply(200, "{search}", b) : b \in SearchBodies } \cup
    { JsonReply(304, "{search}", [results |-> <<>>]) }

GeminiText == "Refunds take 14 days."

GeminiOk == [candidates |-> <<[content |-> [parts |-> <<[text |-> GeminiText]>>]]>>]

GeminiBodies ==
    { GeminiOk,
      [promptFeedback |-> "blocked"],                              \* no candidates
      [candidates |-> <<>>],
      [candidates |-> <<[finishReason |-> "SAFETY"]>>],            \* no content
      [candidates |-> <<[content |-> [parts |-> <<[inlineData |-> "png"]>>]]>>] }  \* no text

\* Replies to POST GEMINI_API_URL.
SynthReplies ==
    {ConnFail} \cup ErrorReplies \cup
    { HttpReply(200, "<html>") } \cup
    { JsonReply(200, "{gemini}", b) : b \in GeminiBodies } \cup
    { JsonReply(304, "{gemini}", GeminiOk) }

(***************************************************************************)
(* The requests library, as app.py uses it                                 *)
(***************************************************************************)
\* Response.raise_for_status(): raises HTTPError for a 4xx or 5xx status.
raise_for_status(r) == 400 <= r.status /\ r.status < 600

\* The part of a client function from requests.post's outcome to
\* response.json(): the decoded body, or the exception that escapes.
post_json(reply) ==
    IF reply.kind = "conn_error"
    THEN Raised([type |-> "ConnectionError", str |-> <<"Connection refused">>])
    ELSE IF raise_for_status(reply)
    THEN Raised([type |-> "HTTPError", response |-> reply])
    ELSE IF ~Has(reply, "json")
    THEN Raised([type |-> "JSONDecodeError", str |-> <<"Expecting value: line 1 column 1 (char 0)">>])
    ELSE Returned(reply.json)

(***************************************************************************)
(* Client functions.  Each is split at its requests.post: the request it   *)
(* sends, and what it returns or raises once the reply is in.              *)
(***************************************************************************)
\* str() of a key inside an f-string.
Fmt(key) == IF key = None THEN "None" ELSE key

SupermemoryHeaders(key) ==
    [Authorization |-> <<"Bearer ", Fmt(key)>>, ContentType |-> "application/json"]

add_memory_request(content_string, source_filename, key) ==
    [ url     |-> SUPERMEMORY_BASE_URL \o <<"/memories">>,
      headers |-> SupermemoryHeaders(key),
      json    |-> [content |-> content_string, source |-> source_filename] ]

add_memory_to_supermemory(reply) == post_json(reply)

search_request(query, key) ==
    [ url     |-> SUPERMEMORY_BASE_URL \o <<"/search">>,
      headers |-> SupermemoryHeaders(key),
      json    |-> [q |-> query, limit |-> 1] ]

search_supermemory(reply) ==
    LET result == post_json(reply)
    IN  IF result.raised THEN result
        ELSE Returned(Get(result.value, "results", <<>>))

Prompt(question, context, source) ==
    << "You are an expert assistant. Your task is to answer the user's question based *only* on the following context retrieved from the document named '",
       source,
       "'. Do not use any outside knowledge. If the answer is not in the context, state that clearly. **Context:** ---",
       context,
       "--- **User's Question:** ",
       question,
       " **Answer:**" >>

generate_request(question, context, source, key) ==
    [ url     |-> GEMINI_API_URL(Fmt(key)),
      headers |-> [ContentType |-> "application/json"],
      json    |-> [contents |-> <<[parts |-> <<[text |-> Prompt(question, context, source)]>>]>>] ]

KeyError(k) == Raised([type |-> "KeyError", str |-> <<"'", k, "'">>])
IndexError  == Raised([type |-> "IndexError", str |-> <<"list index out of range">>])

\* result['candidates'][0]['content']['parts'][0]['text']
CandidateText(result) ==
    IF ~Has(result, "candidates") THEN KeyError("candidates")
    ELSE IF Len(result.candidates) = 0 THEN IndexError
    ELSE LET cand == result.candidates[1]
         IN  IF ~Has(cand, "content") THEN KeyError("content")
             ELSE IF ~Has(cand.content, "parts") THEN KeyError("parts")
             ELSE IF Len(cand.content.parts) = 0 THEN IndexError
             ELSE IF ~Has(cand.content.parts[1], "text") THEN KeyError("text")
             ELSE Returned(cand.content.parts[1].text)

generate_cohesive_answer(reply) ==
    LET result == post_json(reply)
    IN  IF result.raised THEN result ELSE CandidateText(result.value)

\* One entry of a thread's calls: a client function entered, its arguments and the
\* request it posted; state and reply are filled in when the POST comes back.
Call(fn, args, request) ==
    [fn |-> fn, args |-> args, request |-> request, state |-> "pending"]

Finish(call, reply, outcome) ==
    [ fn |-> call.fn, args |-> call.args, request |-> call.request,
      state |-> IF outcome.raised THEN "raised" ELSE "returned",
      reply |-> reply ]

(***************************************************************************)
(* Flask responses                                                         *)
(***************************************************************************)
jsonify(body, status) == [status |-> status, json |-> body]
Html(page, status)    == [status |-> status, html |-> page]

\* Mutant of ApiErrorText: the status code is left out of the message.
ApiErrorText_NoStatus(e) == <<"API Error: ", e.response.text>>

\* f"API Error: {e.response.status_code} - {e.response.text}"
ApiErrorText(e) ==
    <<"API Error: ", StatusStr(e.response.status), " - ", e.response.text>>

\* Flask's answer to an exception that escapes a view function.
Unhandled == Html("Internal Server Error", 500)

(***************************************************************************)
(* Requests a client can send                                              *)
(***************************************************************************)
\* An uploaded file's bytes; "\\xff" is a byte that is not valid UTF-8.
FileBytes == { <<"h", "\\xff", "i">> }

\* bytes.decode('utf-8', errors='ignore'): invalid bytes are dropped.
decode_ignore(bytes) == SelectSeq(bytes, LAMBDA b : b # "\\xff")

\* request.files of a POST /upload.
UploadForms ==
    { [document |-> [filename |-> "policy.txt", data |-> <<"h", "i">>]] } \cup   \* no 'file' part
    { [file |-> [filename |-> "", data |-> <<>>]] } \cup
    { [file |-> [filename |-> "policy.txt", data |-> d]] : d \in FileBytes }

\* request.get_json() of a POST /query: a JSON object, or JSON null.
QueryBodies ==
    { [type |-> "null"],
      [type |-> "object", value |-> [user |-> "u1"]],
      [type |-> "object", value |-> [question |-> ""]],
      [type |-> "object", value |-> [question |-> "What is the refund policy?"]] }

(***************************************************************************)
(* View functions.  A step of a view function either produces the HTTP     *)
(* response or enters a client function and blocks in its POST.            *)
(***************************************************************************)
Respond(response) == [next |-> "done", resp |-> response]
Await(at, call)   == [next |-> at, call |-> call]

\* Mutant of index: the two key tests are joined by "and".
index_And(cfg) ==
    IF ~Truthy(cfg.SUPERMEMORY_API_KEY) /\ ~Truthy(cfg.GEMINI_API_KEY)
    THEN Html("<h1>Configuration Error: API keys are missing. Please check your .env file.</h1>", 500)
    ELSE Html("index.html", 200)

index(cfg) ==
    IF ~Truthy(cfg.SUPERMEMORY_API_KEY) \/ ~Truthy(cfg.GEMINI_API_KEY)
    THEN Html("<h1>Configuration Error: API keys are missing. Please check your .env file.</h1>", 500)
    ELSE Html("index.html", 200)

\* Mutant of upload_file_route: the empty-filename test is missing.
upload_file_route_NoFilenameCheck(request, cfg) ==
    IF ~Has(request.files, "file")
    THEN Respond(jsonify([success |-> FALSE, error |-> <<"No file part">>], 400))
    ELSE LET file == request.files.file
             content_string == decode_ignore(file.data)
         IN  Await("ingest",
                   Call("add_memory_to_supermemory",
                        <<content_string, file.filename>>,
                        add_memory_request(content_string, file.filename,
                                           cfg.SUPERMEMORY_API_KEY)))

\* upload_file_route up to the POST inside add_memory_to_supermemory.
upload_file_route(request, cfg) ==
    IF ~Has(request.files, "file")
    THEN Respond(jsonify([success |-> FALSE, error |-> <<"No file part">>], 400))
    ELSE LET file == request.files.file
         IN  IF file.filename = ""
             THEN Respond(jsonify([success |-> FALSE, error |-> <<"No selected file">>], 400))
             ELSE LET content_string == decode_ignore(file.data)
                  IN  Await("ingest",
                            Call("add_memory_to_supermemory",
                                 <<content_string, file.filename>>,
                                 add_memory_request(content_string, file.filename,
                                                    cfg.SUPERMEMORY_API_KEY)))

\* Mutant of upload_file_resume: the last except clause returns without a
\* status, so Flask answers 200.
upload_file_resume_No500(request, reply) ==
    LET r == add_memory_to_supermemory(reply)
        filename == request.files.file.filename
    IN  IF ~r.raised
        THEN jsonify([success |-> TRUE,
                      message |-> <<"'", filename, "' was successfully added to Supermemory.">>], 200)
        ELSE IF r.exc.type = "HTTPError"
        THEN jsonify([success |-> FALSE, error |-> ApiErrorText(r.exc)], 500)
        ELSE jsonify([success |-> FALSE, error |-> r.exc.str], 200)

\* upload_file_route from the reply of that POST to the response.
upload_file_resume(request, reply) ==
    LET r == add_memory_to_supermemory(reply)
        filename == request.files.file.filename
    IN  IF ~r.raised
        THEN jsonify([success |-> TRUE,
                      message |-> <<"'", filename, "' was successfully added to Supermemory.">>], 200)
        ELSE IF r.exc.type = "HTTPError"
        THEN jsonify([success |-> FALSE, error |-> ApiErrorText(r.exc)], 500)
        ELSE jsonify([success |-> FALSE, error |-> r.exc.str], 500)

Apology ==
    "I'm sorry, I couldn't find any information in your documents related to that question."

ParseErrorPrefix == "Could not parse the search response from Supermemory. Error: "

\* Mutant of query_except: the (IndexError, KeyError) clause is missing.
query_except_NoParseClause(e) ==
    IF e.type = "HTTPError"
    THEN jsonify([error |-> ApiErrorText(e)], 500)
    ELSE jsonify([error |-> e.str], 500)

\* The except clauses of query_route.
query_except(e) ==
    IF e.type = "HTTPError"
    THEN jsonify([error |-> ApiErrorText(e)], 500)
    ELSE IF e.type \in {"IndexError", "KeyError"}
    THEN jsonify([error |-> <<ParseErrorPrefix>> \o e.str], 500)
    ELSE jsonify([error |-> e.str], 500)

\* Mutant of query_route: the synthesis POST is made first, without a search.
query_route_SynthFirst(request, cfg) ==
    IF request.body.type # "object"
    THEN Respond(Unhandled)
    ELSE LET question == Get(request.body.value, "question", None)
         IN  IF ~Truthy(question)
             THEN Respond(jsonify([error |-> <<"Question is required.">>], 400))
             ELSE Await("synth",
                        Call("generate_cohesive_answer", <<question, "", "an uploaded document">>,
                             generate_request(question, "", "an uploaded document",
                                              cfg.GEMINI_API_KEY)))

\* query_route up to the POST inside search_supermemory.
query_route(request, cfg) ==
    IF request.body.type # "object"
    THEN Respond(Unhandled)          \* data.get on None: AttributeError, outside the try
    ELSE LET question == Get(request.body.value, "question", None)
         IN  IF ~Truthy(question)
             THEN Respond(jsonify([error |-> <<"Question is required.">>], 400))
             ELSE Await("search",
                        Call("search_supermemory", <<question>>,
                             search_request(question, cfg.SUPERMEMORY_API_KEY)))

\* Mutant of TopChunk: the last chunk is taken instead of the first.
TopChunk_Last(top_result) == top_result.chunks[Len(top_result.chunks)]

\* top_result['chunks'][0]
TopChunk(top_result) == top_result.chunks[1]

\* Mutant of NothingFound: only the emptiness of the result list is tested.
NothingFound_OnlyResults(search_results) == Len(search_results) = 0

\* not search_results or not search_results[0].get('chunks')
NothingFound(search_results) ==
    \/ Len(search_results) = 0
    \/ ~Has(search_results[1], "chunks")
    \/ Len(search_results[1].chunks) = 0

\* Mutant of query_after_search: a failed search is swallowed and the
\* synthesis is called with an empty context.
query_after_search_SwallowFailure(request, cfg, reply) ==
    LET question == request.body.value.question
        sr == search_supermemory(reply)
    IN  IF sr.raised \/ NothingFound(sr.value)
        THEN Await("synth",
                   Call("generate_cohesive_answer", <<question, "", "an uploaded document">>,
                        generate_request(question, "", "an uploaded document",
                                         cfg.GEMINI_API_KEY)))
        ELSE LET top_result == sr.value[1]
                 top_chunk  == TopChunk(top_result)
                 context    == Get(top_chunk, "content", "")
                 source     == Get(top_result, "title", "an uploaded document")
             IN  Await("synth",
                       Call("generate_cohesive_answer", <<question, context, source>>,
                            generate_request(question, context, source, cfg.GEMINI_API_KEY)))

\* query_route from the reply of the search POST to the response or to the
\* POST inside generate_cohesive_answer.
query_after_search(request, cfg, reply) ==
    LET question == request.body.value.question
        sr == search_supermemory(reply)
    IN  IF sr.raised THEN Respond(query_except(sr.exc))
        ELSE IF NothingFound(sr.value)
        THEN Respond(jsonify([answer |-> Apology], 200))
        ELSE LET top_result == sr.value[1]
             IN  \* top_result['chunks'][0]: KeyError and IndexError go to the except clause
                 IF ~Has(top_result, "chunks") THEN Respond(query_except(KeyError("chunks").exc))
                 ELSE IF Len(top_result.chunks) = 0 THEN Respond(query_except(IndexError.exc))
                 ELSE LET top_chunk == TopChunk(top_result)
                          context   == Get(top_chunk, "content", "")
                          source    == Get(top_result, "title", "an uploaded document")
                      IN  Await("synth",
                                Call("generate_cohesive_answer", <<question, context, source>>,
                                     generate_request(question, context, source,
                                                      cfg.GEMINI_API_KEY)))

\* query_route from the reply of the Gemini POST to the response.
query_after_generate(reply) ==
    LET final_answer == generate_cohesive_answer(reply)
    IN  IF final_answer.raised THEN query_except(final_answer.exc)
        ELSE jsonify([answer |-> final_answer.value], 200)

(***************************************************************************)
(* The server                                                              *)
(***************************************************************************)
One(t) == SetToBag({t})

Running == BagToSet(threads)

Answered == {t \in Running : t.pc = "done"}

\* A request arrives: it gets a new thread, or the place of a thread whose
\* response has been sent, and its view function runs to the first POST or,
\* when there is none, to the response.
Begin(request, step) ==
    LET t == [ pc    |-> step.next,
               req   |-> request,
               calls |-> IF step.next = "done" THEN <<>> ELSE <<step.call>>,
               resp  |-> IF step.next = "done" THEN step.resp ELSE NoResp ]
    IN  /\ \/ /\ BagCardinality(threads) < MaxThreads
              /\ threads' = threads (+) One(t)
           \/ \E old \in Answered : threads' = (threads (-) One(old)) (+) One(t)
        /\ UNCHANGED config

GetIndex ==
    Begin([method |-> "GET", route |-> "/"], Respond(index(config)))

PostUpload ==
    \E files \in UploadForms :
        LET request == [method |-> "POST", route |-> "/upload", files |-> files]
        IN  Begin(request, upload_file_route(request, config))

PostQuery ==
    \E body \in QueryBodies :
        LET request == [method |-> "POST", route |-> "/query", body |-> body]
        IN  Begin(request, query_route(request, config))

\* The pending call of thread t, closed with the reply it got.
Closed(t, reply, outcome) ==
    [t.calls EXCEPT ![Len(t.calls)] = Finish(t.calls[Len(t.calls)], reply, outcome)]

\* Thread t goes on as u.
Continue(t, u) ==
    /\ threads' = (threads (-) One(t)) (+) One(u)
    /\ UNCHANGED config

IngestReturns ==
    \E t \in Running : \E reply \in IngestReplies :
        /\ t.pc = "ingest"
        /\ Continue(t, [ pc    |-> "done",
                         req   |-> t.req,
                         calls |-> Closed(t, reply, add_memory_to_supermemory(reply)),
                         resp  |-> upload_file_resume(t.req, reply) ])

SearchReturns ==
    \E t \in Running : \E reply \in SearchReplies :
        /\ t.pc = "search"
        /\ LET step   == query_after_search(t.req, config, reply)
               closed == Closed(t, reply, search_supermemory(reply))
           IN  Continue(t, [ pc    |-> step.next,
                             req   |-> t.req,
                             calls |-> IF step.next = "done" THEN closed
                                       ELSE Append(closed, step.call),
                             resp  |-> IF step.next = "done" THEN step.resp ELSE NoResp ])

SynthReturns ==
    \E t \in Running : \E reply \in SynthReplies :
        /\ t.pc = "synth"
        /\ Continue(t, [ pc    |-> "done",
                         req   |-> t.req,
                         calls |-> Closed(t, reply, generate_cohesive_answer(reply)),
                         resp  |-> query_after_generate(reply) ])

\* The process after import: keys as the environment has them, no request yet.
Init ==
    /\ config \in [SUPERMEMORY_API_KEY : KeyValues, GEMINI_API_KEY : KeyValues]
    /\ threads = EmptyBag

Next ==
    \/ GetIndex
    \/ PostUpload
    \/ PostQuery
    \/ IngestReturns
    \/ SearchReturns
    \/ SynthReturns

Spec == Init /\ [][Next]_vars

(***************************************************************************)
(* Vocabulary of the properties                                            *)
(***************************************************************************)
Done(t)     == t.pc = "done"
IsIndex(t)  == t.req.route = "/"
IsUpload(t) == t.req.route = "/upload"
IsQuery(t)  == t.req.route = "/query"

\* The positions in t.calls of the calls of client function fn.
CallsOf(t, fn) == {i \in DOMAIN t.calls : t.calls[i].fn = fn}

MemoryFns == {"add_memory_to_supermemory", "search_supermemory"}
SynthFn   == "generate_cohesive_answer"

\* A text (sequence of pieces) that is not the empty string.
NonEmptyText(text) == \E i \in DOMAIN text : text[i] # ""

\* piece occurs in text
Contains(text, piece) == \E i \in DOMAIN text : text[i] = piece

\* The response is a JSON body carrying an error text.
HasError(t) == Has(t.resp, "json") /\ Has(t.resp.json, "error")

\* A POST /upload that passes validation: a file part with a filename.
ValidUpload(t) ==
    IsUpload(t) /\ Has(t.req.files, "file") /\ t.req.files.file.filename # ""

\* An upstream reply that is an HTTP response with an error (4xx/5xx) status.
IsHttpError(reply) ==
    reply.kind = "response" /\ reply.status >= 400 /\ reply.status <= 599

(***************************************************************************)
(* C1  Every answered valid POST /upload made exactly one ingest call; its *)
(* response has success true (status 200) exactly when                     *)
(* add_memory_to_supermemory returned, which it does only on a reply that  *)
(* is no HTTP error; in every other case the response is success false     *)
(* with a non-empty error text and status 500.                             *)
(***************************************************************************)
C1_UploadSuccessIffIngestReturns ==
    \A t \in Running :
        (ValidUpload(t) /\ Done(t)) =>
            /\ Len(t.calls) = 1
            /\ t.calls[1].fn = "add_memory_to_supermemory"
            /\ Has(t.resp, "json") /\ Has(t.resp.json, "success")
            /\ (t.resp.json.success <=> t.calls[1].state = "returned")
            /\ (t.calls[1].state = "returned" =>
                    /\ t.calls[1].reply.kind = "response"
                    /\ ~IsHttpError(t.calls[1].reply)
                    /\ t.resp.status = 200)
            /\ (t.calls[1].state # "returned" =>
                    /\ t.resp.json.success = FALSE
                    /\ t.resp.status = 500
                    /\ Has(t.resp.json, "error")
                    /\ NonEmptyText(t.resp.json.error))

\* One upload answered with success, another answered with an upstream 404.
C1_Witness ==
    \E t, u \in Running :
        /\ ValidUpload(t) /\ Done(t) /\ t.resp.json.success
        /\ ValidUpload(u) /\ Done(u) /\ ~u.resp.json.success
        /\ u.calls[1].reply = HttpReply(404, "Not Found")

(***************************************************************************)
(* C6  A POST /upload with no file part, or with a file whose filename is  *)
(* empty, is answered 400 with success false, and no client function is    *)
(* entered for it: the memory service is not contacted.                    *)
(***************************************************************************)
C6_InvalidUploadIs400 ==
    \A t \in Running :
        (IsUpload(t) /\ ~ValidUpload(t)) =>
            /\ Done(t)
            /\ t.resp.status = 400
            /\ Has(t.resp, "json") /\ t.resp.json.success = FALSE
            /\ t.calls = <<>>

\* Both kinds of invalid upload have been answered.
C6_Witness ==
    \E t, u \in Running :
        /\ IsUpload(t) /\ ~Has(t.req.files, "file") /\ t.resp.status = 400
        /\ IsUpload(u) /\ Has(u.req.files, "file") /\ u.req.files.file.filename = ""
        /\ u.resp.status = 400

\* What search_supermemory returned for t, when it returned.
SearchReturned(t) ==
    /\ IsQuery(t) /\ Len(t.calls) >= 1
    /\ t.calls[1].fn = "search_supermemory" /\ t.calls[1].state = "returned"

SearchResults(t) == Get(t.calls[1].reply.json, "results", <<>>)

\* The first result's chunk list (empty when the result has none).
FirstChunks(t) == Get(SearchResults(t)[1], "chunks", <<>>)

(***************************************************************************)
(* C3  When the search of a POST /query returned zero results, or a first  *)
(* result whose chunk list is empty, the request is answered 200 with the  *)
(* fixed apology as answer and generate_cohesive_answer is never entered.  *)
(***************************************************************************)
C3_NothingFoundIsApology ==
    \A t \in Running :
        (SearchReturned(t) /\ (Len(SearchResults(t)) = 0 \/ Len(FirstChunks(t)) = 0)) =>
            /\ Done(t)
            /\ t.resp = jsonify([answer |-> Apology], 200)
            /\ CallsOf(t, SynthFn) = {}

\* A search that returned no results and one whose first result has an empty
\* chunk list (the second result has chunks) have both been answered.
C3_Witness ==
    \E t, u \in Running :
        /\ SearchReturned(t) /\ Has(t.calls[1].reply.json, "results")
        /\ Len(SearchResults(t)) = 0 /\ Done(t)
        /\ SearchReturned(u) /\ Len(SearchResults(u)) = 2
        /\ Has(SearchResults(u)[1], "chunks") /\ Len(FirstChunks(u)) = 0
        /\ Done(u) /\ u.resp.json.answer = Apology

\* The question of a POST /query, None when the body carries none.
QuestionOf(t) ==
    IF t.req.body.type = "object" THEN Get(t.req.body.value, "question", None) ELSE None

(***************************************************************************)
(* C5  A POST /query with an empty or missing question is answered 400     *)
(* and no client function is entered for it (neither the search nor the    *)
(* synthesis API is contacted).                                            *)
(***************************************************************************)
C5_MissingQuestionIs400 ==
    \A t \in Running :
        (IsQuery(t) /\ ~Truthy(QuestionOf(t))) =>
            /\ Done(t)
            /\ t.resp.status = 400
            /\ t.calls = <<>>

\* The question, first chunk's content and first result's title of t, with the
\* values the handler substitutes for an absent content or title.
Triple(t) ==
    << t.req.body.value.question,
       Get(FirstChunks(t)[1], "content", ""),
       Get(SearchResults(t)[1], "title", "an uploaded document") >>

\* The text at candidates[0].content.parts[0].text of a Gemini reply.
SynthOutput(call) == call.reply.json.candidates[1].content.parts[1].text

(***************************************************************************)
(* C2 as stated, read for the first result: whenever the search returned   *)
(* a first result with at least one chunk, the answered request made       *)
(* exactly one synthesis call, with (question, first chunk's content,      *)
(* result's title), and its response is a JSON body whose only key is      *)
(* answer, holding the synthesis output.                                   *)
(***************************************************************************)
C2_Original ==
    \A t \in Running :
        (SearchReturned(t) /\ Len(SearchResults(t)) > 0 /\ Len(FirstChunks(t)) > 0 /\ Done(t)) =>
            /\ Cardinality(CallsOf(t, SynthFn)) = 1
            /\ t.calls[2].args = Triple(t)
            /\ Has(t.resp, "json") /\ DOMAIN t.resp.json = {"answer"}
            /\ t.resp.json.answer = SynthOutput(t.calls[2])

(***************************************************************************)
(* C2 (amended)  Whenever the search returned a list whose FIRST result    *)
(* has at least one chunk, generate_cohesive_answer is entered exactly     *)
(* once, right after the search, with (question, first chunk's content or  *)
(* '' when absent, first result's title or 'an uploaded document' when     *)
(* absent); if that call returns, the response is 200 with a JSON body     *)
(* whose only key is answer, holding the returned text unmodified; if it   *)
(* raises, the response is 500 with a JSON body whose only key is error.   *)
(***************************************************************************)
C2_SynthesisOnceWithTriple ==
    \A t \in Running :
        (SearchReturned(t) /\ Len(SearchResults(t)) > 0 /\ Len(FirstChunks(t)) > 0) =>
            /\ Len(t.calls) = 2
            /\ CallsOf(t, SynthFn) = {2}
            /\ t.calls[2].args = Triple(t)
            /\ (t.calls[2].state = "returned" =>
                    /\ Done(t) /\ t.resp.status = 200
                    /\ Has(t.resp, "json") /\ DOMAIN t.resp.json = {"answer"}
                    /\ t.resp.json.answer = SynthOutput(t.calls[2]))
            /\ (t.calls[2].state = "raised" =>
                    /\ Done(t) /\ t.resp.status = 500
                    /\ Has(t.resp, "json") /\ DOMAIN t.resp.json = {"error"})

\* A query answered from the first of two chunks of the first of two results.
C2_Witness ==
    \E t \in Running :
        /\ SearchReturned(t) /\ Len(SearchResults(t)) = 2 /\ Len(FirstChunks(t)) = 2
        /\ Done(t) /\ t.calls[2].state = "returned"
        /\ t.calls[2].args = << "What is the refund policy?",
                                "Refunds are processed within 14 days.", "policy.txt" >>
        /\ t.resp = jsonify([answer |-> GeminiText], 200)

\* The closed calls of t whose reply is an HTTP response.
RepliedCalls(t) == {i \in DOMAIN t.calls : t.calls[i].state # "pending" /\ t.calls[i].reply.kind = "response"}

Is2xxJson(reply) ==
    /\ reply.kind = "response" /\ reply.status >= 200 /\ reply.status <= 299
    /\ Has(reply, "json")

\* A search body without results, or whose first result is without chunks.
LacksSearchShape(json) ==
    \/ ~Has(json, "results")
    \/ (Len(json.results) > 0 /\ ~Has(json.results[1], "chunks"))

\* A Gemini body without candidates[0].content.parts[0].text.
LacksTextPath(json) ==
    ~ ( /\ Has(json, "candidates") /\ Len(json.candidates) > 0
        /\ Has(json.candidates[1], "content")
        /\ Has(json.candidates[1].content, "parts")
        /\ Len(json.candidates[1].content.parts) > 0
        /\ Has(json.candidates[1].content.parts[1], "text") )

SearchShapeMissing(t) ==
    /\ Len(t.calls) >= 1 /\ t.calls[1].fn = "search_supermemory"
    /\ Is2xxJson(t.calls[1].reply) /\ LacksSearchShape(t.calls[1].reply.json)

SynthShapeMissing(t) ==
    /\ Len(t.calls) = 2 /\ t.calls[2].fn = SynthFn
    /\ Is2xxJson(t.calls[2].reply) /\ LacksTextPath(t.calls[2].reply.json)

IsParseError(t) ==
    /\ t.resp.status = 500
    /\ HasError(t)
    /\ Contains(t.resp.json.error, ParseErrorPrefix)

(***************************************************************************)
(* C7 as stated: an answered POST /query in which an upstream replied 2xx  *)
(* with a JSON body that lacks the expected shape (search results/chunks,  *)
(* or the synthesis text path) is answered 500 with a parse-error message. *)
(***************************************************************************)
C7_Original ==
    \A t \in Running :
        (IsQuery(t) /\ Done(t) /\ (SearchShapeMissing(t) \/ SynthShapeMissing(t))) =>
            IsParseError(t)

(***************************************************************************)
(* C7 (amended)  An answered POST /query in which the synthesis API        *)
(* replied 2xx with a JSON body that lacks a key or index of               *)
(* candidates[0].content.parts[0].text is answered 500 with the            *)
(* parse-error message; one in which the search replied 2xx with a JSON    *)
(* body that lacks results, or whose first result lacks chunks, is         *)
(* answered 200 with the fixed apology (the absent field is defaulted).    *)
(***************************************************************************)
C7_ShapeErrors ==
    \A t \in Running :
        (IsQuery(t) /\ Done(t)) =>
            /\ SynthShapeMissing(t) => IsParseError(t)
            /\ SearchShapeMissing(t) => t.resp = jsonify([answer |-> Apology], 200)

\* A query answered after a Gemini body without candidates, and one answered
\* after a search body without results.
C7_Witness ==
    \E t, u \in Running :
        /\ IsQuery(t) /\ Done(t) /\ SynthShapeMissing(t)
        /\ ~Has(t.calls[2].reply.json, "candidates")
        /\ t.resp = jsonify([error |-> <<ParseErrorPrefix, "'", "candidates", "'">>], 500)
        /\ IsQuery(u) /\ Done(u) /\ SearchShapeMissing(u)
        /\ ~Has(u.calls[1].reply.json, "results")

\* A key that os.getenv found set to a non-empty value.
Configured(key) == key \in KeyValues \ {None, ""}

ConfigErrorPage ==
    "<h1>Configuration Error: API keys are missing. Please check your .env file.</h1>"

\* Every GET / was answered at once, without any client call: with the page
\* when both keys are configured, with the configuration error otherwise.
IndexFollowsConfig ==
    \A t \in Running :
        IsIndex(t) =>
            /\ Done(t) /\ t.calls = <<>>
            /\ (Configured(config.SUPERMEMORY_API_KEY) /\ Configured(config.GEMINI_API_KEY))
                   => t.resp = Html("index.html", 200)
            /\ ~(Configured(config.SUPERMEMORY_API_KEY) /\ Configured(config.GEMINI_API_KEY))
                   => t.resp = Html(ConfigErrorPage, 500)

(***************************************************************************)
(* C8  In every state of every interleaving of requests, each GET / has    *)
(* been answered with the static page if and only if both API keys are     *)
(* configured, and with 500 and the configuration-error message otherwise; *)
(* and no step changes the configuration, so the outcome of GET / is the   *)
(* same for the whole life of the process.                                 *)
(***************************************************************************)
C8_IndexFollowsFixedConfig ==
    /\ []IndexFollowsConfig
    /\ [][config' = config]_vars

\* GET / answered 500 in a process whose Gemini key is set to the empty
\* string, while a query of the same process is waiting for its search.
C8_Witness ==
    \E t, u \in Running :
        /\ config.SUPERMEMORY_API_KEY = "sk-key" /\ config.GEMINI_API_KEY = ""
        /\ IsIndex(t) /\ t.resp.status = 500
        /\ IsQuery(u) /\ u.pc = "search"

(***************************************************************************)
(* C9  In every request, also with several requests in progress: a call of *)
(* generate_cohesive_answer is directly preceded by a search_supermemory   *)
(* call of the same request that has returned; only the last call of a     *)
(* request can be pending; and the response exists exactly when the        *)
(* handler is done, with no call of the request still pending.             *)
(***************************************************************************)
C9_CallsStrictlyOrdered ==
    \A t \in Running :
        /\ \A i \in CallsOf(t, SynthFn) :
               /\ i > 1
               /\ t.calls[i - 1].fn = "search_supermemory"
               /\ t.calls[i - 1].state = "returned"
        /\ \A i \in DOMAIN t.calls : t.calls[i].state = "pending" => i = Len(t.calls)
        /\ (t.resp # NoResp) <=> Done(t)
        /\ Done(t) => \A i \in DOMAIN t.calls : t.calls[i].state # "pending"

\* Two requests in progress at once: one blocked in its synthesis call after
\* its search returned, the other blocked in its search.
C9_Witness ==
    \E t, u \in Running :
        /\ t.pc = "synth" /\ Len(t.calls) = 2
        /\ t.calls[1].state = "returned" /\ t.calls[2].state = "pending"
        /\ u.pc = "search" /\ u.calls[1].state = "pending"

(***************************************************************************)
(* C10  No retries: a request calls the memory service at most once and    *)
(* the synthesis API at most once, and a client call that fails is the     *)
(* last call of its request, which is answered with an error response      *)
(* (status 500, error text).                                               *)
(***************************************************************************)
C10_NoRetries ==
    \A t \in Running :
        /\ Cardinality({i \in DOMAIN t.calls : t.calls[i].fn \in MemoryFns}) <= 1
        /\ Cardinality(CallsOf(t, SynthFn)) <= 1
        /\ \A i \in DOMAIN t.calls :
               t.calls[i].state = "raised" =>
                   /\ i = Len(t.calls)
                   /\ Done(t)
                   /\ t.resp.status = 500
                   /\ HasError(t) /\ NonEmptyText(t.resp.json.error)

\* A query whose search failed on the connection, answered 500 after that one
\* call, and a query whose synthesis failed after a successful search.
C10_Witness ==
    \E t, u \in Running :
        /\ IsQuery(t) /\ Done(t) /\ Len(t.calls) = 1
        /\ t.calls[1].reply = ConnFail /\ t.resp.status = 500
        /\ IsQuery(u) /\ Done(u) /\ Len(u.calls) = 2
        /\ u.calls[2].state = "raised" /\ u.resp.status = 500

====
